---- MODULE Spec2Model ----
(***************************************************************************)
(* Streaming ternary MAC unit (tt_um_matmul_free) together with the cocotb *)
(* testbench that drives it (test/test.py).                                *)
(*                                                                         *)
(* The testbench side (bus encoding, clear pulse, golden accumulator,      *)
(* expected output, signed read-back) is translated from test/test.py.     *)
(* The unit under test itself is not part of the sources; its clocked      *)
(* behaviour (16-bit accumulator, clear / valid / weight priority, 8-bit   *)
(* saturated output) is modelled from the specification, section 4.1.      *)
(***************************************************************************)
EXTENDS Integers, FiniteSets, Sequences, TLC

\* ------------------------------------------------------------------ bounds

\* MAC cycles driven after a clear with a freely chosen input vector each.
MaxCycles == 3

\* MAC cycles driven after a clear when one input vector is streamed
\* unchanged; 256 cycles of |activation| = 128 are the shortest run that
\* leaves the signed 16-bit range, 259 cycles of 127 the next.
StreamCycles == 260

\* Arguments handed to drive_mac_cycle.  -129 and 128 lie outside the signed
\* 8-bit range, 4 and 5 outside the 2-bit weight code.
Activations == {-129, -128, -1, 127, 128}
WeightCodes == 0..5
ValidFlags == {0, 1}

LegalActivations == {a \in Activations : a >= -128 /\ a <= 127}
LegalWeightCodes == {c \in WeightCodes : c >= 0 /\ c <= 3}

\* ------------------------------------------------------- testbench helpers

\* to_signed_8 with the comparison off by one (val > 128).
to_signed_8_off_by_one(val) ==
    LET v == val % 256 IN IF v > 128 THEN v - 256 ELSE v

\* test.py to_signed_8: val & 0xFF, then two's complement.
to_signed_8(val) ==
    LET v == val % 256 IN IF v >= 128 THEN v - 256 ELSE v

\* act_unsigned with the sign bit masked away (activation & 0x7F).
act_unsigned_7bit(activation) == activation % 128

\* drive_mac_cycle: act_unsigned = activation & 0xFF.  Python's & on a
\* negative int is the two's complement, i.e. the non-negative residue.
act_unsigned(activation) == activation % 256

\* uio_val with the valid strobe shifted to bit 1 instead of bit 2.
uio_val_valid_bit1(valid_, weight_code) ==
    LET wc == weight_code % 4
    IN  IF valid_ = 1 /\ (wc \div 2) % 2 = 0 THEN wc + 2 ELSE wc

\* uio_val with the weight code masked to one bit (weight_code & 0x01).
uio_val_mask1(valid_, weight_code) == valid_ * 4 + (weight_code % 2)

\* uio_val with the valid strobe always asserted.
uio_val_always_valid(valid_, weight_code) == 4 + (weight_code % 4)

\* drive_mac_cycle: uio_val = (valid << 2) | (weight_code & 0x03), for the
\* valid strobe 0 or 1 the testbench passes.
uio_val(valid_, weight_code) == valid_ * 4 + (weight_code % 4)

\* The clear pulse written to bit 2 (the valid strobe) instead of bit 3.
CLEAR_ACC_bit2 == 2 * 2

\* The clear pulse written as 0x80 instead of 0x08.
CLEAR_ACC_bit7 == 8 * 16

\* Clear pulse: dut.uio_in.value = 0x08 (bit 3 = clear_acc).
CLEAR_ACC == 8

\* Second half of the clear pulse: dut.uio_in.value = 0x00.
UIO_IDLE == 0

\* Golden model with the subtraction adding instead.
golden_update_sub_adds(acc, xv, wv) ==
    IF wv = 1 THEN acc + xv ELSE IF wv = 2 THEN acc + xv ELSE acc

\* test_ternary_mac golden model: unbounded Python int.
golden_update(acc, xv, wv) ==
    IF wv = 1 THEN acc + xv ELSE IF wv = 2 THEN acc - xv ELSE acc

\* expected_output clamping to the symmetric range [-127, 127].
expected_output_symmetric(acc) ==
    IF acc > 127 THEN 127 ELSE IF acc < -127 THEN -127 ELSE acc

\* expected = max(-128, min(127, python_acc))
expected_output(acc) ==
    LET lo == IF 127 < acc THEN 127 ELSE acc
    IN  IF -128 > lo THEN -128 ELSE lo

\* The timing diagram's table with the third row's accumulator computed as
\* if weight code 2 added (80 + 20).
cycles_sub_adds ==
    << [act |-> 50,  wt |-> 1, acc_after |-> 50],
       [act |-> 30,  wt |-> 1, acc_after |-> 80],
       [act |-> 20,  wt |-> 2, acc_after |-> 100],
       [act |-> 100, wt |-> 0, acc_after |-> 100],
       [act |-> 70,  wt |-> 1, acc_after |-> 170] >>

\* TimingDiagram: cycles = [(activation, weight_code, weight_label,
\* acc_after), ...], valid held high in every cycle.
cycles ==
    << [act |-> 50,  wt |-> 1, acc_after |-> 50],
       [act |-> 30,  wt |-> 1, acc_after |-> 80],
       [act |-> 20,  wt |-> 2, acc_after |-> 60],
       [act |-> 100, wt |-> 0, acc_after |-> 60],
       [act |-> 70,  wt |-> 1, acc_after |-> 130] >>

\* TimingDiagram: out_val = max(-128, min(127, acc_val)).
out_val(acc_val) ==
    LET lo == IF 127 < acc_val THEN 127 ELSE acc_val
    IN  IF -128 > lo THEN -128 ELSE lo

\* TimingDiagram: is_saturated = out_val != acc_val.
is_saturated(acc_val) == out_val(acc_val) # acc_val

\* ------------------------------------------------------- the unit (DUT)

\* uio_in pin layout: [3] = clear_acc, [2] = valid, [1:0] = weight code.
clear_bit(uio) == (uio \div 8) % 2
valid_bit(uio) == (uio \div 4) % 2
weight_bits(uio) == uio % 4

\* ui_in[7:0] zero-extended instead of sign-extended.
sign_extend_zero(ui) == ui

\* ui_in[7:0] sign-extended to the accumulator width.
sign_extend(ui) == IF ui >= 128 THEN ui - 256 ELSE ui

\* Signed 16-bit register: two's complement wrap-around.
wrap16(v) == ((v + 32768) % 65536) - 32768

\* step(activation, weight_code, valid, clear): clear over accumulate over
\* hold.
step(acc, activation, weight_code, valid_, clear) ==
    IF clear = 1 THEN 0
    ELSE IF valid_ = 1
         THEN IF weight_code = 1 THEN wrap16(acc + activation)
              ELSE IF weight_code = 2 THEN wrap16(acc - activation)
              ELSE acc
         ELSE acc

\* saturate keeping the low 8 bits of the accumulator instead of clamping.
saturate_truncates(acc) == ((acc + 128) % 256) - 128

\* Saturating cast of the accumulator to the signed 8-bit output.
saturate(acc) == IF acc > 127 THEN 127 ELSE IF acc < -128 THEN -128 ELSE acc

\* One rising clock edge of the unit with the pins as driven.
rising_edge(acc, ui, uio) ==
    step(acc, sign_extend(ui), weight_bits(uio), valid_bit(uio), clear_bit(uio))

\* uo_out[7:0]: the saturated accumulator as an 8-bit pin value.
uo_pins(acc) == saturate(acc) % 256

\* ------------------------------------------------------------------ state

VARIABLES
    accumulator,   \* the unit's 16-bit signed accumulator
    uo_out,        \* the unit's output pins uo_out[7:0], 0..255
    ui_in,         \* activation pins ui_in[7:0], as last driven
    uio_in,        \* control pins uio_in, as last driven
    x, w, valid,   \* arguments of the last drive_mac_cycle call
    python_acc,    \* golden accumulator of the testbench (unbounded)
    expected,      \* expected output of the last checked cycle
    actual,        \* output read back in the last checked cycle
    cycle,         \* MAC cycles driven since the last clear or reset
    op,            \* the operation that produced this state
    acc_pre,       \* accumulator before the last clock edge
    streaming,     \* every MAC cycle since the last clear drove the same
                   \* (x, w, valid), with no idle clock in between
    legal,         \* every MAC cycle since the last clear drove an activation
                   \* in [-128, 127] and a weight code in 0..3
    diagram,       \* equals cycle while the MAC cycles since the last clear
                   \* are the first rows of the timing diagram, in order
    twin           \* a second unit, put in its power-on state whenever this
                   \* one is cleared, and clocked with the same pins

vars == <<accumulator, uo_out, ui_in, uio_in, x, w, valid, python_acc,
          expected, actual, cycle, op, acc_pre, streaming, legal, diagram,
          twin>>

\* read_output: uo_out.value.signed_integer after the falling edge.
read_output == to_signed_8(uo_out)

\* Power-on / rst_n state of a unit.
PowerOn == [acc |-> 0, out |-> uo_pins(0)]

\* State after the reset sequence: pins at 0, rst_n released.
Init ==
    /\ accumulator = PowerOn.acc
    /\ uo_out = PowerOn.out
    /\ ui_in = 0
    /\ uio_in = 0
    /\ x = 0 /\ w = 0 /\ valid = 0
    /\ python_acc = 0
    /\ expected = 0
    /\ actual = 0
    /\ cycle = 0
    /\ op = "reset"
    /\ acc_pre = 0
    /\ streaming = TRUE
    /\ legal = TRUE
    /\ diagram = 0
    /\ twin = PowerOn

\* The rising clock edge: the unit latches the pins as just driven, the
\* output follows the updated accumulator.
ClockEdge ==
    /\ acc_pre' = accumulator
    /\ accumulator' = rising_edge(accumulator, ui_in', uio_in')
    /\ uo_out' = uo_pins(accumulator')

TwinEdge ==
    twin' = LET a == rising_edge(twin.acc, ui_in', uio_in')
            IN  [acc |-> a, out |-> uo_pins(a)]

\* Reset sequence: pins to 0, rst_n low for ten clocks, then released.
Reset ==
    /\ ui_in' = 0
    /\ uio_in' = 0
    /\ acc_pre' = accumulator
    /\ accumulator' = PowerOn.acc
    /\ uo_out' = PowerOn.out
    /\ twin' = PowerOn
    /\ python_acc' = 0
    /\ cycle' = 0
    /\ streaming' = TRUE
    /\ legal' = TRUE
    /\ diagram' = 0
    /\ op' = "reset"
    /\ UNCHANGED <<x, w, valid, expected, actual>>

\* First edge of the clear pulse: uio_in = 0x08, ui_in as it was left.
ClearAcc ==
    /\ uio_in' = CLEAR_ACC
    /\ ui_in' = ui_in
    /\ ClockEdge
    /\ twin' = PowerOn
    /\ python_acc' = 0
    /\ expected' = 0
    /\ actual' = to_signed_8(uo_out')
    /\ cycle' = 0
    /\ streaming' = TRUE
    /\ legal' = TRUE
    /\ diagram' = 0
    /\ op' = "clear"
    /\ UNCHANGED <<x, w, valid>>

\* A clear edge with the remaining inputs as don't-cares: clear asserted
\* together with any legal activation, weight code and valid strobe.
ClearStep(a, wc, v) ==
    /\ cycle <= MaxCycles
    /\ x' = a /\ w' = wc /\ valid' = v
    /\ ui_in' = act_unsigned(a)
    /\ uio_in' = CLEAR_ACC + uio_val(v, wc)
    /\ ClockEdge
    /\ twin' = PowerOn
    /\ python_acc' = 0
    /\ expected' = 0
    /\ actual' = to_signed_8(uo_out')
    /\ cycle' = 0
    /\ streaming' = TRUE
    /\ legal' = TRUE
    /\ diagram' = 0
    /\ op' = "clear"

\* Second edge of the clear pulse: uio_in = 0x00, one idle clock.
IdleCycle ==
    /\ uio_in' = UIO_IDLE
    /\ ui_in' = ui_in
    /\ ClockEdge
    /\ TwinEdge
    /\ streaming' = (cycle = 0)
    /\ diagram' = (IF cycle = 0 THEN 0 ELSE -1)
    /\ op' = "idle"
    /\ UNCHANGED <<x, w, valid, python_acc, expected, actual, cycle, legal>>

\* One iteration of the testbench loop: drive_mac_cycle, golden update,
\* expected output, read_output.
MacBody(a, wc, v) ==
    /\ x' = a /\ w' = wc /\ valid' = v
    /\ ui_in' = act_unsigned(a)
    /\ uio_in' = uio_val(v, wc)
    /\ ClockEdge
    /\ TwinEdge
    /\ python_acc' = IF v = 1 THEN golden_update(python_acc, a, wc)
                     ELSE python_acc
    /\ expected' = expected_output(python_acc')
    /\ actual' = to_signed_8(uo_out')
    /\ cycle' = cycle + 1
    /\ streaming' = (cycle = 0 \/ (streaming /\ <<a, wc, v>> = <<x, w, valid>>))
    /\ legal' = (legal /\ a >= -128 /\ a <= 127 /\ wc >= 0 /\ wc <= 3)
    /\ diagram' = (IF /\ diagram = cycle
                      /\ cycle < Len(cycles)
                      /\ a = cycles[cycle + 1].act
                      /\ wc = cycles[cycle + 1].wt
                      /\ v = 1
                   THEN cycle + 1
                   ELSE -1)
    /\ op' = "mac"

MacCycle(a, wc, v) ==
    /\ cycle < MaxCycles
    /\ MacBody(a, wc, v)

\* Streaming one input vector, as the saturation test does: the cycles
\* after the first repeat the vector of the first.
StreamCycle ==
    /\ streaming
    /\ cycle > 0
    /\ cycle < StreamCycles
    /\ MacBody(x, w, valid)

\* The next cycle of the timing diagram: its rows are driven in order from
\* a cleared state, valid asserted.
TimingCycle ==
    /\ diagram = cycle
    /\ cycle < Len(cycles)
    /\ MacBody(cycles[cycle + 1].act, cycles[cycle + 1].wt, 1)

Next ==
    \/ Reset
    \/ ClearAcc
    \/ IdleCycle
    \/ \E a \in LegalActivations, wc \in LegalWeightCodes, v \in ValidFlags :
          ClearStep(a, wc, v)
    \/ \E a \in Activations, wc \in WeightCodes, v \in ValidFlags :
          MacCycle(a, wc, v)
    \/ StreamCycle
    \/ TimingCycle

Spec == Init /\ [][Next]_vars

\* ------------------------------------------------------------- type check

Int16 == -32768..32767

TypeOK ==
    /\ accumulator \in Int16
    /\ uo_out \in 0..255
    /\ ui_in \in 0..255
    /\ uio_in \in 0..15
    /\ cycle \in 0..(StreamCycles + 1)

\* ------------------------------------------------------------------ claims

\* C1: in every reachable state, whichever branch the last clock edge took,
\* the signed output equals max(-128, min(127, accumulator)) of the
\* accumulator as updated by that edge, and the value the testbench read
\* back in that cycle is that output.
C1_OutputIsClampOfAccumulator ==
    /\ read_output = expected_output(accumulator)
    /\ (op \in {"mac", "clear"} => actual = expected_output(accumulator))

\* C1 witness: an edge that moves the accumulator from inside the range to
\* above it, so the clamps of the old and of the new accumulator differ.
C1_Witness ==
    /\ op = "mac"
    /\ acc_pre = 127
    /\ accumulator = 254
    /\ read_output = 127

\* C2: a clock edge with clear asserted leaves accumulator = 0 and
\* output = 0, whatever the accumulator, activation, weight code and valid
\* strobe were.
C2_ClearDominates ==
    op = "clear" =>
        /\ clear_bit(uio_in) = 1
        /\ accumulator = 0
        /\ read_output = 0
        /\ actual = 0

\* C2 witness: clear together with valid and the add code, on a non-zero
\* accumulator and a non-zero activation.
C2_Witness ==
    /\ op = "clear"
    /\ valid_bit(uio_in) = 1
    /\ weight_bits(uio_in) = 1
    /\ sign_extend(ui_in) = 127
    /\ acc_pre = 254
    /\ accumulator = 0

\* C4: with clear deasserted, weight codes 0 and 3 leave the accumulator and
\* the output as they were, for every activation and both values of valid;
\* the two codes have the same successor from every reachable accumulator.
C4_NoOpCodes ==
    /\ (op = "mac" /\ w \in {0, 3}) =>
           /\ accumulator = acc_pre
           /\ read_output = expected_output(acc_pre)
    /\ \A a \in LegalActivations, v \in ValidFlags :
           rising_edge(accumulator, act_unsigned(a), uio_val(v, 0))
             = rising_edge(accumulator, act_unsigned(a), uio_val(v, 3))

\* C4 witness: code 3 with valid asserted on a non-zero accumulator.
C4_Witness ==
    /\ op = "mac"
    /\ w = 3
    /\ valid = 1
    /\ x = 127
    /\ acc_pre = -128
    /\ accumulator = -128

\* C5: with valid and clear deasserted the accumulator and the output are
\* unchanged for every weight code and activation, the add and subtract
\* codes included; the idle clock of the clear pulse is such a cycle.
C5_ValidGates ==
    /\ (op = "mac" /\ valid = 0) =>
           /\ accumulator = acc_pre
           /\ read_output = expected_output(acc_pre)
    /\ op = "idle" =>
           /\ accumulator = acc_pre
           /\ read_output = expected_output(acc_pre)

\* C5 witness: the add code with valid deasserted on a non-zero accumulator.
C5_Witness ==
    /\ op = "mac"
    /\ valid = 0
    /\ w = 1
    /\ x = 127
    /\ acc_pre = -129
    /\ accumulator = -129

\* C3 as stated: with clear deasserted and valid asserted, for every
\* accumulator value a and every activation x in [-128, 127], weight code 1
\* yields accumulator a + x and weight code 2 yields accumulator a - x.
C3_AddSubExact ==
    (op = "mac" /\ valid = 1 /\ x >= -128 /\ x <= 127) =>
        /\ (w = 1 => accumulator = acc_pre + x)
        /\ (w = 2 => accumulator = acc_pre - x)

\* C3 amended: the same, for the sign-extended activation, whenever a + x
\* (code 1) or a - x (code 2) lies in the signed 16-bit range; when it does
\* not, the accumulator holds that sum wrapped by 65536.
C3_AddSubModulo16 ==
    (op = "mac" /\ valid = 1 /\ x >= -128 /\ x <= 127 /\ w \in {1, 2}) =>
        LET sum == IF w = 1 THEN acc_pre + x ELSE acc_pre - x
        IN  /\ accumulator \in Int16
            /\ (sum \in Int16 => accumulator = sum)
            /\ (sum > 32767 => accumulator = sum - 65536)
            /\ (sum < -32768 => accumulator = sum + 65536)

\* C3 witness: a negative activation added to, and one subtracted from, a
\* non-zero accumulator.
C3_Witness ==
    /\ op = "mac"
    /\ valid = 1
    /\ x = -1
    /\ w = 2
    /\ acc_pre = -256
    /\ accumulator = -255

\* C6 as stated: over any run of legal (activation, weight_code, valid)
\* tuples after a clear, the unbounded reference sum equals the unit's
\* 16-bit accumulator at every step and the output equals the reference
\* clamped to [-128, 127].
C6_ReferenceEqualsAccumulator ==
    legal =>
        /\ accumulator = python_acc
        /\ read_output = expected_output(python_acc)

\* C6 amended: the same at every step at which the reference sum lies in
\* the signed 16-bit range (every run of at most 255 cycles after the
\* clear); beyond it the accumulator is the reference wrapped by 65536, and
\* the output is the clamp of the accumulator.
C6_ReferenceWithin16Bits ==
    legal =>
        /\ (python_acc \in Int16 =>
               /\ accumulator = python_acc
               /\ read_output = expected_output(python_acc)
               /\ (op = "mac" => actual = expected))
        /\ (cycle <= 255 => python_acc \in Int16)
        /\ (accumulator - python_acc) % 65536 = 0
        /\ read_output = expected_output(accumulator)

\* C6 witness: a run of mixed add, subtract and no-op cycles whose reference
\* is out of the output range.
C6_Witness ==
    /\ legal
    /\ ~streaming
    /\ op = "mac"
    /\ cycle = 3
    /\ python_acc = -255
    /\ accumulator = -255
    /\ actual = -128

\* C7: from a cleared state, streaming activation 127 with weight code 1 and
\* valid asserted gives accumulator 127 * k after k cycles, 635 after five,
\* and output 127 after every cycle whose accumulator exceeds 127.
C7_PositiveSaturation ==
    (streaming /\ op = "mac" /\ x = 127 /\ w = 1 /\ valid = 1
       /\ cycle >= 1 /\ cycle <= 5) =>
        /\ accumulator = 127 * cycle
        /\ read_output = 127
        /\ (cycle = 5 => accumulator = 635)

\* C7 witness: the fifth cycle of that stream.
C7_Witness ==
    /\ streaming
    /\ op = "mac"
    /\ x = 127 /\ w = 1 /\ valid = 1
    /\ cycle = 5
    /\ acc_pre = 508
    /\ accumulator = 635
    /\ read_output = 127

\* C8: from a cleared state, streaming activation 127 with weight code 2 and
\* valid asserted gives accumulator -127 * k after k cycles, output -127
\* after the first and -128 after each later one, and accumulator -635 with
\* output -128 after five.
C8_NegativeSaturation ==
    (streaming /\ op = "mac" /\ x = 127 /\ w = 2 /\ valid = 1
       /\ cycle >= 1 /\ cycle <= 5) =>
        /\ accumulator = 0 - 127 * cycle
        /\ read_output = (IF cycle = 1 THEN -127 ELSE -128)
        /\ actual = read_output
        /\ (cycle = 5 => accumulator = -635 /\ read_output = -128)

\* C8 witness: the fifth cycle of that stream.
C8_Witness ==
    /\ streaming
    /\ op = "mac"
    /\ x = 127 /\ w = 2 /\ valid = 1
    /\ cycle = 5
    /\ accumulator = -635
    /\ read_output = -128

\* C9: the state after the reset sequence has accumulator 0 and output 0,
\* and a unit that is cleared from any state, and then clocked through idle
\* and MAC cycles, has at every cycle the accumulator and the output of a
\* unit started in the power-on state and clocked with the same pins.
C9_ClearEqualsPowerOn ==
    /\ (op = "reset" => accumulator = 0 /\ read_output = 0)
    /\ twin.acc = accumulator
    /\ twin.out = uo_out

\* C9 witness: the clear edge taken from a saturated, non-zero state: the
\* unit is then in the state the power-on twin starts from.
C9_Witness ==
    /\ op = "clear"
    /\ acc_pre = 254
    /\ accumulator = 0
    /\ twin = PowerOn
    /\ uo_out = twin.out

\* C10 as stated: a drive_mac_cycle call with an activation outside
\* [-128, 127] or a weight code outside 0..3 is either rejected, leaving the
\* accumulator unchanged, or applied with the offending input clamped to the
\* nearest legal value.
C10_RejectedOrClamped ==
    (op = "mac" /\ ~(x \in -128..127 /\ w \in 0..3)) =>
        LET xc == IF x > 127 THEN 127 ELSE IF x < -128 THEN -128 ELSE x
            wc == IF w > 3 THEN 3 ELSE IF w < 0 THEN 0 ELSE w
        IN  \/ accumulator = acc_pre
            \/ accumulator = step(acc_pre, xc, wc, valid, 0)

\* C10 amended: such a call is neither rejected nor clamped: the activation
\* is reduced to its low 8 bits (read as two's complement) and the weight
\* code to its low 2 bits before the transition is applied, so the
\* accumulator is updated (at 16-bit width) from the reduced value, never
\* from the out-of-range value itself.
C10_ReducedToBusWidth ==
    (op = "mac" /\ ~(x \in -128..127 /\ w \in 0..3)) =>
        LET xr == ((x + 128) % 256) - 128
            wr == w % 4
            d  == IF valid = 1 /\ wr = 1 THEN xr
                  ELSE IF valid = 1 /\ wr = 2 THEN 0 - xr
                  ELSE 0
        IN  /\ accumulator = wrap16(acc_pre + d)
            /\ (acc_pre + d \in Int16 => accumulator = acc_pre + d)
            /\ (valid = 1 /\ wr = 1 /\ ~(x \in -128..127)) =>
                   accumulator # wrap16(acc_pre + x)
            /\ (valid = 1 /\ wr = 2 /\ ~(x \in -128..127)) =>
                   accumulator # wrap16(acc_pre - x)

\* C10 witness: activation 128 with the add code: the unit subtracts 128.
C10_Witness ==
    /\ op = "mac"
    /\ x = 128
    /\ w = 1
    /\ valid = 1
    /\ acc_pre = 127
    /\ accumulator = -1

\* C11: from a cleared state, with valid asserted and clear deasserted in
\* every cycle, the vectors (50,1), (30,1), (20,2), (100,0), (70,1) give
\* accumulator 50, 80, 60, 60, 130 and output 50, 80, 60, 60, 127: the
\* values the timing diagram tabulates, saturated in the fifth cycle only.
C11_TimingDiagram ==
    (diagram = cycle /\ cycle >= 1) =>
        /\ cycle <= 5
        /\ op = "mac" /\ valid = 1 /\ clear_bit(uio_in) = 0
        /\ <<x, w>> = << <<50, 1>>, <<30, 1>>, <<20, 2>>, <<100, 0>>,
                         <<70, 1>> >>[cycle]
        /\ accumulator = <<50, 80, 60, 60, 130>>[cycle]
        /\ read_output = <<50, 80, 60, 60, 127>>[cycle]
        /\ accumulator = cycles[cycle].acc_after
        /\ read_output = out_val(cycles[cycle].acc_after)
        /\ (is_saturated(cycles[cycle].acc_after) <=> cycle = 5)
        /\ ((read_output # accumulator) <=> cycle = 5)

\* C11 witness: the fifth cycle of the diagram.
C11_Witness ==
    /\ diagram = 5
    /\ cycle = 5
    /\ x = 70 /\ w = 1 /\ valid = 1
    /\ acc_pre = 60
    /\ accumulator = 130
    /\ read_output = 127

\* C12: saturation has no hysteresis.  Whenever the accumulator is above
\* 127 the output is 127, whenever it is below -128 the output is -128, and
\* on the edge that brings it from outside [-128, 127] back inside (by
\* accumulation of the opposite sign or by clear) the output is exactly the
\* new accumulator, however far outside it was.
C12_NoHysteresis ==
    /\ (accumulator > 127 => read_output = 127)
    /\ (accumulator < -128 => read_output = -128)
    /\ ((acc_pre > 127 \/ acc_pre < -128)
           /\ accumulator >= -128 /\ accumulator <= 127)
          => /\ read_output = accumulator
             /\ (op \in {"mac", "clear"} => actual = accumulator)

\* C12 witness: the accumulator, saturated high at 254, re-enters the range
\* at 126 by accumulating -128; the output is 126, not the boundary.
C12_Witness ==
    /\ op = "mac"
    /\ acc_pre = 254
    /\ accumulator = 126
    /\ read_output = 126
    /\ actual = 126

====
